---------------------------- MODULE Spec2Model ----------------------------
(***************************************************************************)
(* A model of packages/calculator.py: the Calculator class, its history    *)
(* list and its thirteen methods.                                          *)
(*                                                                         *)
(* Python numbers are modelled as tagged sign-magnitude rationals          *)
(*     [t |-> "int" | "float" | "complex", sg |-> 1 | -1, n |-> Nat,       *)
(*      d |-> Nat \ {0}]                                                   *)
(* with value sg * n / d.  The separate sign keeps IEEE-754 negative zero  *)
(* (str(-0.5 * 0) is "-0.0").  The float inputs of the model are dyadic    *)
(* rationals of small magnitude, on which +, - and * are exact in binary   *)
(* floating point; the results of /, math.sqrt, math.sin and math.cos are  *)
(* the exact quotient resp. a fixed-point approximation, the rounding of   *)
(* the last bit being outside what a rational can express.                 *)
(***************************************************************************)
EXTENDS Integers, Sequences, FiniteSets, TLC

(***************************************************************************)
(* Bounds of the model.                                                    *)
(***************************************************************************)
\* longest history a run builds (recorded calls are disabled beyond it)
MaxHist == 2

\* the integer arguments of the arithmetic specification are -MaxInt..MaxInt
MaxInt == 5

(***************************************************************************)
(* Python numbers.                                                         *)
(***************************************************************************)
Abs(k) == IF k < 0 THEN -k ELSE k

RECURSIVE GCD(_, _)
GCD(a, b) == IF b = 0 THEN a ELSE GCD(b, a % b)

RECURSIVE Pow(_, _)
Pow(b, e) == IF e = 0 THEN 1 ELSE b * Pow(b, e - 1)

\* the int k
IntV(k) == [t |-> "int", sg |-> IF k < 0 THEN -1 ELSE 1, n |-> Abs(k), d |-> 1]

\* the float sg * n / d, in lowest terms
FloatV(sg, n, d) ==
    LET g == GCD(n, d)
    IN  [t |-> "float", sg |-> sg, n |-> n \div g, d |-> d \div g]

\* a complex result; its value is not modelled
ComplexV == [t |-> "complex", sg |-> 1, n |-> 0, d |-> 1]

\* None, the value of a method that returns nothing
NoneV == [t |-> "None", sg |-> 1, n |-> 0, d |-> 1]

\* the signed numerator of v
Num(v) == v.sg * v.n

\* the comparisons the code makes: b == 0 and n < 0 (-0.0 == 0, not -0.0 < 0)
IsZero(v) == v.n = 0
IsNeg(v) == v.sg = -1 /\ v.n > 0

BothInt(a, b) == a.t = "int" /\ b.t = "int"

\* float addition of the magnitudes with signs; an exact zero sum is -0.0
\* only when both operands are negative zeros
FloatAdd(a, b) ==
    LET num == Num(a) * b.d + Num(b) * a.d
    IN  IF num = 0
        THEN FloatV(IF IsZero(a) /\ IsZero(b) /\ a.sg = -1 /\ b.sg = -1
                    THEN -1 ELSE 1, 0, 1)
        ELSE FloatV(IF num < 0 THEN -1 ELSE 1, Abs(num), a.d * b.d)

\* a + b
PyAdd(a, b) ==
    IF BothInt(a, b) THEN IntV(Num(a) + Num(b)) ELSE FloatAdd(a, b)

\* a - b
PySub(a, b) ==
    IF BothInt(a, b) THEN IntV(Num(a) - Num(b))
    ELSE FloatAdd(a, [b EXCEPT !.sg = -b.sg])

\* a * b
PyMul(a, b) ==
    IF BothInt(a, b) THEN IntV(Num(a) * Num(b))
    ELSE FloatV(a.sg * b.sg, a.n * b.n, a.d * b.d)

\* a / b for b # 0: true division, always a float
PyTrueDiv(a, b) == FloatV(a.sg * b.sg, a.n * b.d, a.d * b.n)

\* a variant of PyMod: the truncating remainder of C, whose sign follows a
PyMod_truncated(a, b) ==
    IF BothInt(a, b) THEN IntV(a.sg * (a.n % b.n))
    ELSE FloatV(a.sg, (a.n * b.d) % (b.n * a.d), a.d * b.d)

\* a % b for b # 0: the remainder takes the sign of b (a float zero too)
PyMod(a, b) ==
    IF BothInt(a, b) THEN
        LET m == Num(a) % b.n
        IN  IF b.sg = 1 \/ m = 0 THEN IntV(m) ELSE IntV(m - b.n)
    ELSE
        LET den == a.d * b.d
            x == Num(a) * b.d
            y == b.n * a.d
            m == x % y
        IN  IF m = 0 THEN FloatV(b.sg, 0, 1)
            ELSE IF b.sg = 1 THEN FloatV(1, m, den)
            ELSE FloatV(-1, y - m, den)

\* the largest r in lo..hi with r * r <= m
RECURSIVE IsqrtIn(_, _, _)
IsqrtIn(lo, hi, m) ==
    IF lo = hi THEN lo
    ELSE LET mid == (lo + hi + 1) \div 2
         IN  IF mid * mid <= m THEN IsqrtIn(mid, hi, m) ELSE IsqrtIn(lo, mid - 1, m)

\* math.sqrt(v) for v >= 0, to two decimal places (exact on perfect squares);
\* math.sqrt(-0.0) is -0.0
PySqrt(v) ==
    LET m == (v.n * 10000) \div v.d
    IN  FloatV(IF IsZero(v) THEN v.sg ELSE 1, IsqrtIn(0, 100 * (v.n + 1), m), 100)

\* sg ** e for a sign sg and e >= 0
SignPow(sg, e) == IF sg = -1 /\ e % 2 = 1 THEN -1 ELSE 1

\* base ** exponent: an outcome, since 0 to a negative power raises
PyPow(a, b) ==
    IF b.d = 1 THEN
        \* an integral exponent
        IF b.sg = 1 \/ IsZero(b) THEN
            IF BothInt(a, b) THEN [kind |-> "ok", val |-> IntV(Pow(Num(a), b.n))]
            ELSE [kind |-> "ok",
                  val |-> FloatV(SignPow(a.sg, b.n), Pow(a.n, b.n), Pow(a.d, b.n))]
        ELSE IF IsZero(a) THEN [kind |-> "ZeroDivisionError", val |-> NoneV]
        ELSE [kind |-> "ok",
              val |-> FloatV(SignPow(a.sg, b.n), Pow(a.d, b.n), Pow(a.n, b.n))]
    ELSE
        \* a fractional exponent p/2 (the floats of the model are halves):
        \* the root of the p-th power, complex for a negative base
        IF IsZero(a) THEN
            IF b.sg = -1 THEN [kind |-> "ZeroDivisionError", val |-> NoneV]
            ELSE [kind |-> "ok", val |-> FloatV(1, 0, 1)]
        ELSE IF a.sg = -1 THEN [kind |-> "ok", val |-> ComplexV]
        ELSE IF b.sg = 1
             THEN [kind |-> "ok",
                   val |-> PySqrt(FloatV(1, Pow(a.n, b.n), Pow(a.d, b.n)))]
             ELSE [kind |-> "ok",
                   val |-> PySqrt(FloatV(1, Pow(a.d, b.n), Pow(a.n, b.n)))]

\* abs(n)
PyAbs(v) == [v EXCEPT !.sg = 1]

\* int(n): truncation toward zero
PyInt(v) == IntV(v.sg * (v.n \div v.d))

\* math.factorial(k) for an int k >= 0
RECURSIVE Fact(_)
Fact(k) == IF k = 0 THEN 1 ELSE k * Fact(k - 1)

MathFactorial(v) == IntV(Fact(v.n))

\* math.radians(v), in units of 1/10000 radian, for v >= 0
Radians(v) == (v.n * 31416) \div (180 * v.d)

\* the alternating Taylor series of sine (k = 1) and cosine (k = 0) from the
\* term of degree k, in units of 1/10000
RECURSIVE Series(_, _, _)
Series(x, term, k) ==
    IF term = 0 THEN 0
    ELSE term - Series(x, (((((term * x) \div 10000) * x) \div 10000)
                              \div ((k + 1) * (k + 2))), k + 2)

\* math.sin(math.radians(v)) and math.cos(math.radians(v)), to about 1e-3
PySin(v) ==
    LET s == Series(Radians(v), Radians(v), 1)
    IN  IF IsZero(v) THEN FloatV(v.sg, 0, 1)
        ELSE FloatV(IF s < 0 THEN -v.sg ELSE v.sg, Abs(s), 10000)

PyCos(v) ==
    LET c == Series(Radians(v), 10000, 0)
    IN  FloatV(IF c < 0 THEN -1 ELSE 1, Abs(c), 10000)

(***************************************************************************)
(* str() of a number, as an f-string formats it.                           *)
(***************************************************************************)
Digit(i) == <<"0", "1", "2", "3", "4", "5", "6", "7", "8", "9">>[i + 1]

RECURSIVE NatStr(_)
NatStr(k) == IF k < 10 THEN Digit(k) ELSE NatStr(k \div 10) \o Digit(k % 10)

\* the decimal digits of r/d (0 < r < d), at most k of them
RECURSIVE FracStr(_, _, _)
FracStr(r, d, k) ==
    IF r = 0 \/ k = 0 THEN ""
    ELSE Digit((r * 10) \div d) \o FracStr((r * 10) % d, d, k - 1)

Str(v) ==
    LET sign == IF v.sg = -1 THEN "-" ELSE ""
    IN  IF v.t = "int" THEN sign \o NatStr(v.n)
        ELSE sign \o NatStr(v.n \div v.d) \o "."
                  \o (IF v.n % v.d = 0 THEN "0" ELSE FracStr(v.n % v.d, v.d, 17))


(***************************************************************************)
(* The arguments the calls draw from.                                      *)
(***************************************************************************)
Halves == {FloatV(-1, 3, 2), FloatV(-1, 1, 2), FloatV(-1, 0, 1), FloatV(1, 0, 1),
           FloatV(1, 1, 2), FloatV(1, 3, 2)}

\* ints and floats of small magnitude
SmallNums == {IntV(k) : k \in -MaxInt..MaxInt} \cup Halves

\* with the operands of the demonstration: divide(20, 4), modulo(17, 5)
DemoNums == SmallNums \cup {IntV(4), IntV(5), IntV(17), IntV(20)}

\* with the squares and angles of the demonstration: square_root(144),
\* absolute(-42), sin(30), cos(60)
RootNums == SmallNums \cup {IntV(144)}
SignedNums == SmallNums \cup {IntV(-42), IntV(42)}
AngleNums == SmallNums \cup {IntV(-90), IntV(30), IntV(60), IntV(90)}
FactNums == SmallNums \cup {IntV(5)}

\* the arguments of the recorded calls of the runs that build a history
HistNums == {FloatV(-1, 1, 2), IntV(2)}

\* the arguments of the other calls of those runs
PureNums == {FloatV(-1, 1, 2), IntV(0), IntV(2)}

\* the one argument of the runs in which the caller keeps a returned list
ViewNums == {IntV(2)}

(***************************************************************************)
(* The state of a Calculator and of its caller.                            *)
(***************************************************************************)
VARIABLES
    result,     \* self.result
    history,    \* self.history: a reference to a list object
    heap,       \* the list objects: reference -> sequence of strings
    view,       \* the list the caller kept from a get_history() call
    call,       \* the last call: its name, arguments and outcome
    log,        \* the recorded calls since construction or the last clear
    cleared,    \* whether clear_history() was ever called
    since       \* what was called since the caller kept its list

vars == <<result, history, heap, view, call, log, cleared, since>>

\* a Calculator's list and the one list a caller may hold besides it
ObjIds == {1, 2}

NoView == [ref |-> 0, items |-> <<>>]

NoneSince == [rec |-> FALSE, clr |-> FALSE, pure |-> FALSE]

ListV(ref, items) == [t |-> "list", ref |-> ref, items |-> items]

Ok(v) == [kind |-> "ok", val |-> v]
Raise(kind) == [kind |-> kind, val |-> NoneV]

\* the contents of self.history
Hist == heap[history]

\* reference counting: a list nothing refers to is freed
Collect(h, live) == [o \in ObjIds |-> IF o \in live THEN h[o] ELSE <<>>]

Live(hist, v) == {hist} \cup (IF v.ref = 0 THEN {} ELSE {v.ref})

\* since, after a call of the given sort, while the caller holds a list
Noted(sort) ==
    IF view = NoView THEN since
    ELSE [since EXCEPT ![sort] = TRUE]

\* Calculator()
Init ==
    /\ result = 0
    /\ history = 1
    /\ heap = [o \in ObjIds |-> <<>>]
    /\ view = NoView
    /\ call = [op |-> "__init__", args |-> <<>>, out |-> Ok(NoneV)]
    /\ log = <<>>
    /\ cleared = FALSE
    /\ since = NoneSince

\* a variant of _record: self.history.insert(0, ...)
_record_front(operation, res) ==
    [heap EXCEPT ![history] = <<operation \o " = " \o Str(res)>> \o @]

\* self.history.append(f"{operation} = {result}"): the heap afterwards
_record(operation, res) ==
    [heap EXCEPT ![history] = Append(@, operation \o " = " \o Str(res))]

\* what a call that records nothing leaves as it is
untouched == <<result, history, heap, view, log, cleared>>

\* result = a + b; return self._record(f"{a} + {b}", result)
add(S) ==
    \E a, b \in S :
        /\ Len(Hist) < MaxHist
        /\ Len(log) < MaxHist
        /\ heap' = _record(Str(a) \o " + " \o Str(b), PyAdd(a, b))
        /\ call' = [op |-> "add", args |-> <<a, b>>, out |-> Ok(PyAdd(a, b))]
        /\ log' = Append(log, [op |-> "add", a |-> a, b |-> b])
        /\ since' = Noted("rec")
        /\ UNCHANGED <<result, history, view, cleared>>

\* a variant of subtract: result = b - a
subtract_swapped(S) ==
    \E a, b \in S :
        /\ Len(Hist) < MaxHist
        /\ Len(log) < MaxHist
        /\ heap' = _record(Str(a) \o " - " \o Str(b), PySub(b, a))
        /\ call' = [op |-> "subtract", args |-> <<a, b>>, out |-> Ok(PySub(b, a))]
        /\ log' = Append(log, [op |-> "subtract", a |-> a, b |-> b])
        /\ since' = Noted("rec")
        /\ UNCHANGED <<result, history, view, cleared>>

\* result = a - b; return self._record(f"{a} - {b}", result)
subtract(S) ==
    \E a, b \in S :
        /\ Len(Hist) < MaxHist
        /\ Len(log) < MaxHist
        /\ heap' = _record(Str(a) \o " - " \o Str(b), PySub(a, b))
        /\ call' = [op |-> "subtract", args |-> <<a, b>>, out |-> Ok(PySub(a, b))]
        /\ log' = Append(log, [op |-> "subtract", a |-> a, b |-> b])
        /\ since' = Noted("rec")
        /\ UNCHANGED <<result, history, view, cleared>>

\* result = a * b; return self._record(f"{a} * {b}", result)
multiply(S) ==
    \E a, b \in S :
        /\ Len(Hist) < MaxHist
        /\ Len(log) < MaxHist
        /\ heap' = _record(Str(a) \o " * " \o Str(b), PyMul(a, b))
        /\ call' = [op |-> "multiply", args |-> <<a, b>>, out |-> Ok(PyMul(a, b))]
        /\ log' = Append(log, [op |-> "multiply", a |-> a, b |-> b])
        /\ since' = Noted("rec")
        /\ UNCHANGED <<result, history, view, cleared>>

\* a variant of divide: return self._record(f"{a} / {b}", a / b)
divide_recorded(S) ==
    \E a, b \in S :
        /\ ~IsZero(b)
        /\ Len(Hist) < MaxHist
        /\ heap' = _record(Str(a) \o " / " \o Str(b), PyTrueDiv(a, b))
        /\ call' = [op |-> "divide", args |-> <<a, b>>, out |-> Ok(PyTrueDiv(a, b))]
        /\ since' = Noted("pure")
        /\ UNCHANGED <<result, history, view, log, cleared>>

\* a variant of divide: the guard tests a == 0
divide_guards_dividend(S) ==
    \E a, b \in S :
        /\ call' = [op |-> "divide", args |-> <<a, b>>,
                    out |-> IF IsZero(a) THEN Raise("ValueError")
                            ELSE Ok(PyTrueDiv(a, b))]
        /\ since' = Noted("pure")
        /\ UNCHANGED untouched

\* if b == 0: raise ValueError(...); return a / b
divide(S) ==
    \E a, b \in S :
        /\ call' = [op |-> "divide", args |-> <<a, b>>,
                    out |-> IF IsZero(b) THEN Raise("ValueError")
                            ELSE Ok(PyTrueDiv(a, b))]
        /\ since' = Noted("pure")
        /\ UNCHANGED untouched

\* return base ** exponent
power(S) ==
    \E base, exponent \in S :
        /\ call' = [op |-> "power", args |-> <<base, exponent>>,
                    out |-> PyPow(base, exponent)]
        /\ since' = Noted("pure")
        /\ UNCHANGED untouched

\* a variant of modulo: no guard, so that % raises ZeroDivisionError itself
modulo_unguarded(S) ==
    \E a, b \in S :
        /\ call' = [op |-> "modulo", args |-> <<a, b>>,
                    out |-> IF IsZero(b) THEN Raise("ZeroDivisionError")
                            ELSE Ok(PyMod(a, b))]
        /\ since' = Noted("pure")
        /\ UNCHANGED untouched

\* if b == 0: raise ValueError(...); return a % b
modulo(S) ==
    \E a, b \in S :
        /\ call' = [op |-> "modulo", args |-> <<a, b>>,
                    out |-> IF IsZero(b) THEN Raise("ValueError")
                            ELSE Ok(PyMod(a, b))]
        /\ since' = Noted("pure")
        /\ UNCHANGED untouched

\* if n < 0: raise ValueError(...); return math.sqrt(n)
square_root(S) ==
    \E n \in S :
        /\ call' = [op |-> "square_root", args |-> <<n>>,
                    out |-> IF IsNeg(n) THEN Raise("ValueError") ELSE Ok(PySqrt(n))]
        /\ since' = Noted("pure")
        /\ UNCHANGED untouched

\* a variant of absolute: return self._record(f"|{n}|", abs(n))
absolute_recorded(S) ==
    \E n \in S :
        /\ Len(Hist) < MaxHist
        /\ heap' = _record("|" \o Str(n) \o "|", PyAbs(n))
        /\ call' = [op |-> "absolute", args |-> <<n>>, out |-> Ok(PyAbs(n))]
        /\ since' = Noted("pure")
        /\ UNCHANGED <<result, history, view, log, cleared>>

\* return abs(n)
absolute(S) ==
    \E n \in S :
        /\ call' = [op |-> "absolute", args |-> <<n>>, out |-> Ok(PyAbs(n))]
        /\ since' = Noted("pure")
        /\ UNCHANGED untouched

\* radians = math.radians(angle_degrees); return math.sin(radians)
sin(S) ==
    \E angle_degrees \in S :
        /\ call' = [op |-> "sin", args |-> <<angle_degrees>>,
                    out |-> Ok(PySin(angle_degrees))]
        /\ since' = Noted("pure")
        /\ UNCHANGED untouched

\* radians = math.radians(angle_degrees); return math.cos(radians)
cos(S) ==
    \E angle_degrees \in S :
        /\ call' = [op |-> "cos", args |-> <<angle_degrees>>,
                    out |-> Ok(PyCos(angle_degrees))]
        /\ since' = Noted("pure")
        /\ UNCHANGED untouched

\* a variant of factorial: n = int(n) before the guard
factorial_truncating_first(S) ==
    \E n \in S :
        /\ call' = [op |-> "factorial", args |-> <<n>>,
                    out |-> IF IsNeg(PyInt(n)) THEN Raise("ValueError")
                            ELSE Ok(MathFactorial(PyInt(n)))]
        /\ since' = Noted("pure")
        /\ UNCHANGED untouched

\* if n < 0: raise ValueError(...); return math.factorial(int(n))
factorial(S) ==
    \E n \in S :
        /\ call' = [op |-> "factorial", args |-> <<n>>,
                    out |-> IF IsNeg(n) THEN Raise("ValueError")
                            ELSE Ok(MathFactorial(PyInt(n)))]
        /\ since' = Noted("pure")
        /\ UNCHANGED untouched

\* return self.history: the list itself, not a copy.  The caller keeps it or not.
get_history(K) ==
    \E keep \in K :
        /\ call' = [op |-> "get_history", args |-> <<>>, out |-> Ok(ListV(history, Hist))]
        /\ IF keep
           THEN /\ view' = [ref |-> history, items |-> Hist]
                /\ heap' = Collect(heap, {history})
                /\ since' = NoneSince
           ELSE UNCHANGED <<view, heap, since>>
        /\ UNCHANGED <<result, history, log, cleared>>

\* a variant of clear_history: history = [], a local name
clear_history_local ==
    /\ call' = [op |-> "clear_history", args |-> <<>>, out |-> Ok(NoneV)]
    /\ log' = <<>>
    /\ cleared' = TRUE
    /\ since' = Noted("clr")
    /\ UNCHANGED <<result, history, heap, view>>

\* self.history = []: a new list; the old one lives on if the caller holds it
clear_history ==
    LET new == CHOOSE o \in ObjIds : o # view.ref
    IN  /\ history' = new
        /\ heap' = Collect([heap EXCEPT ![new] = <<>>], Live(new, view))
        /\ call' = [op |-> "clear_history", args |-> <<>>, out |-> Ok(NoneV)]
        /\ log' = <<>>
        /\ cleared' = TRUE
        /\ since' = Noted("clr")
        /\ UNCHANGED <<result, view>>

\* the caller appends to the list it holds
view_append ==
    /\ view # NoView
    /\ Len(heap[view.ref]) < MaxHist
    /\ heap' = [heap EXCEPT ![view.ref] = Append(@, "x")]
    /\ call' = [op |-> "view.append", args |-> <<>>, out |-> Ok(NoneV)]
    /\ UNCHANGED <<result, history, view, log, cleared, since>>

\* the caller removes the last entry of the list it holds
view_pop ==
    /\ view # NoView
    /\ heap[view.ref] # <<>>
    /\ heap' = [heap EXCEPT ![view.ref] = SubSeq(@, 1, Len(@) - 1)]
    /\ call' = [op |-> "view.pop", args |-> <<>>, out |-> Ok(NoneV)]
    /\ UNCHANGED <<result, history, view, log, cleared, since>>

(***************************************************************************)
(* Specifications.                                                         *)
(***************************************************************************)
\* every method, on a calculator whose caller keeps no returned list
Next ==
    \/ add(HistNums)
    \/ subtract(HistNums)
    \/ multiply(HistNums)
    \/ divide(PureNums)
    \/ power(PureNums)
    \/ modulo(PureNums)
    \/ square_root(PureNums)
    \/ absolute(PureNums)
    \/ sin(PureNums)
    \/ cos(PureNums)
    \/ factorial(PureNums)
    \/ get_history({FALSE})
    \/ clear_history

Spec == Init /\ [][Next]_vars

\* every method, with a caller that keeps a returned list and calls again
NextView ==
    \/ add(ViewNums)
    \/ subtract(ViewNums)
    \/ multiply(ViewNums)
    \/ divide(ViewNums)
    \/ power(ViewNums)
    \/ modulo(ViewNums)
    \/ square_root(ViewNums)
    \/ absolute(ViewNums)
    \/ sin(ViewNums)
    \/ cos(ViewNums)
    \/ factorial(ViewNums)
    \/ get_history(BOOLEAN)
    \/ clear_history

SpecView == Init /\ [][NextView]_vars

\* the same, with a caller that also changes the list it was handed
NextCaller ==
    \/ NextView
    \/ view_append
    \/ view_pop

SpecCaller == Init /\ [][NextCaller]_vars

\* the methods that compute and record nothing, over the larger argument sets
NextArith ==
    \/ divide(DemoNums)
    \/ power(SmallNums)
    \/ modulo(DemoNums)
    \/ square_root(RootNums)
    \/ absolute(SignedNums)
    \/ sin(AngleNums)
    \/ cos(AngleNums)
    \/ factorial(FactNums)

SpecArith == Init /\ [][NextArith]_vars

(***************************************************************************)
(* Properties.                                                             *)
(***************************************************************************)
RecordedOps == {"add", "subtract", "multiply"}

PureOps == {"divide", "power", "modulo", "square_root", "absolute", "sin", "cos",
            "factorial"}

\* v is the number num / den
IsValue(v, num, den) == Num(v) * den = num * v.d

\* the sign a recorded call prints
Symbol(op) == CASE op = "add" -> "+" [] op = "subtract" -> "-" [] op = "multiply" -> "*"

\* the numerator of a <op> b over the denominator a.d * b.d
Numerator(op, a, b) ==
    CASE op = "add" -> Num(a) * b.d + Num(b) * a.d
      [] op = "subtract" -> Num(a) * b.d - Num(b) * a.d
      [] op = "multiply" -> Num(a) * Num(b)

\* "{a} {op} {b} = {r}"
EntryText(op, a, b, r) ==
    Str(a) \o " " \o Symbol(op) \o " " \o Str(b) \o " = " \o Str(r)

\* C1: add, subtract and multiply return a+b, a-b and a*b, and each call
\* appends exactly one entry "{a} {op} {b} = {result}" at the end of history
RecordedCallAppendsEntry ==
    [][call'.op \in RecordedOps =>
        LET a == call'.args[1]
            b == call'.args[2]
            r == call'.out.val
        IN  /\ call'.out.kind = "ok"
            /\ IsValue(r, Numerator(call'.op, a, b), a.d * b.d)
            /\ r.t = (IF BothInt(a, b) THEN "int" ELSE "float")
            /\ Len(Hist') = Len(Hist) + 1
            /\ Hist' = Append(Hist, EntryText(call'.op, a, b, r))]_vars

RecordedCallAppendsEntry_witness ==
    /\ call.op = "subtract"
    /\ call.args = <<IntV(2), FloatV(-1, 1, 2)>>
    /\ call.out = Ok(FloatV(1, 5, 2))
    /\ Hist = <<"-0.5 * 2 = -1.0", "2 - -0.5 = 2.5">>

\* C2: a call of divide, power, modulo, square_root, absolute, sin, cos or
\* factorial, returning or raising, leaves the history list and its contents
\* as they were
PureCallKeepsHistory ==
    [][call'.op \in PureOps => history' = history /\ Hist' = Hist]_vars

PureCallKeepsHistory_witness ==
    /\ call.op = "square_root"
    /\ call.out.kind = "ValueError"
    /\ Hist = <<"2 + 2 = 4", "-0.5 * -0.5 = 0.25">>

\* the entries of the calls of a log
Entries(l) ==
    [i \in 1..Len(l) |->
        LET c == l[i]
            r == CASE c.op = "add" -> PyAdd(c.a, c.b)
                   [] c.op = "subtract" -> PySub(c.a, c.b)
                   [] c.op = "multiply" -> PyMul(c.a, c.b)
        IN  EntryText(c.op, c.a, c.b, r)]

\* C3: right after clear_history() the history is empty, and once cleared the
\* history holds exactly the entries of the recorded calls made since the
\* last clear
ClearedHistoryRestarts ==
    /\ call.op = "clear_history" => Hist = <<>>
    /\ cleared => Len(Hist) = Len(log) /\ Hist = Entries(log)

ClearedHistoryRestarts_witness ==
    /\ cleared
    /\ call.op = "multiply"
    /\ Hist = <<"2 - 2 = 0", "2 * 2 = 4">>

\* C4 as stated: a get_history() call returns what the kept earlier call
\* returned when no add, subtract or multiply was called in between
GetHistoryIdempotent ==
    (call.op = "get_history" /\ view # NoView /\ ~since.rec)
        => call.out.val.items = view.items

\* C4 amended: ... when no add, subtract, multiply or clear_history was called
\* in between
GetHistoryIdempotentUnlessCleared ==
    (call.op = "get_history" /\ view # NoView /\ ~since.rec /\ ~since.clr)
        => call.out.val.items = view.items

GetHistoryIdempotentUnlessCleared_witness ==
    /\ call.op = "get_history"
    /\ view.items = <<"2 + 2 = 4", "2 - 2 = 0">>
    /\ since = [rec |-> FALSE, clr |-> FALSE, pure |-> TRUE]
    /\ call.out.val.items = view.items

\* C5: neither get_history() nor anything the caller does with the list it
\* returned changes the calculator's history
ReturnedListIsReadOnly ==
    [][call'.op \in {"get_history", "view.append", "view.pop"} => Hist' = Hist]_vars

\* C6: divide and modulo raise ValueError exactly when b == 0, and return the
\* quotient resp. a remainder otherwise; divide(20, 4) is 5.0, modulo(17, 5) is 2
ZeroDivisorRejected ==
    call.op \in {"divide", "modulo"} =>
        LET a == call.args[1]
            b == call.args[2]
        IN  /\ IsZero(b) => call.out = Raise("ValueError")
            /\ ~IsZero(b) => call.out.kind = "ok"
            /\ (~IsZero(b) /\ call.op = "divide") =>
                   /\ call.out.val.t = "float"
                   /\ IsValue(call.out.val, Num(a) * b.d, a.d * Num(b))
            /\ call.args = <<IntV(20), IntV(4)>> /\ call.op = "divide"
                   => Str(call.out.val) = "5.0"
            /\ call.args = <<IntV(17), IntV(5)>> /\ call.op = "modulo"
                   => call.out.val = IntV(2)

ZeroDivisorRejected_witness ==
    /\ call.op = "divide"
    /\ call.args = <<IntV(20), IntV(4)>>
    /\ call.out = Ok(FloatV(1, 5, 1))

\* k!, as a product
Product(k) ==
    LET f[i \in 0..k] == IF i = 0 THEN 1 ELSE i * f[i - 1]
    IN  f[k]

\* n truncated toward zero, for a number n
Truncated(n) == IF n.sg = 1 THEN n.n \div n.d ELSE -(n.n \div n.d)

\* C7 as stated: factorial rejects n when n truncated toward zero is negative,
\* and returns k! for the truncated value k otherwise
FactorialRejectsNegativeTruncation ==
    call.op = "factorial" =>
        LET k == Truncated(call.args[1])
        IN  IF k < 0 THEN call.out = Raise("ValueError")
            ELSE call.out = Ok(IntV(Product(k)))

\* C7 amended: factorial rejects n when n itself is negative, and returns k!
\* for k = n truncated toward zero otherwise
FactorialRejectsNegative ==
    call.op = "factorial" =>
        LET n == call.args[1]
        IN  IF n.sg = -1 /\ n.n > 0 THEN call.out = Raise("ValueError")
            ELSE call.out = Ok(IntV(Product(Truncated(n))))

FactorialRejectsNegative_witness ==
    /\ call.op = "factorial"
    /\ call.args = <<FloatV(-1, 1, 2)>>
    /\ call.out = Raise("ValueError")

\* C8: for ints a and b # 0, modulo(a, b) is the r with a = b*q + r for an
\* integer q, 0 <= r < b when b > 0 and b < r <= 0 when b < 0
ModuloIsFloorMod ==
    (/\ call.op = "modulo"
     /\ BothInt(call.args[1], call.args[2])
     /\ ~IsZero(call.args[2])) =>
        LET a == Num(call.args[1])
            b == Num(call.args[2])
            r == Num(call.out.val)
        IN  /\ call.out.kind = "ok"
            /\ call.out.val.t = "int"
            /\ \E q \in -(Abs(a) + 1)..(Abs(a) + 1) : a = b * q + r
            /\ b > 0 => 0 <= r /\ r < b
            /\ b < 0 => b < r /\ r <= 0

ModuloIsFloorMod_witness ==
    /\ call.op = "modulo"
    /\ call.args = <<IntV(3), IntV(-2)>>
    /\ call.out = Ok(IntV(-1))

\* the four cases in which a call is to raise ValueError
Rejected(c) ==
    \/ c.op \in {"divide", "modulo"} /\ c.args[2].n = 0
    \/ c.op \in {"square_root", "factorial"} /\ c.args[1].sg = -1 /\ c.args[1].n > 0

\* C9 as stated: a call raises ValueError in the four cases and nothing in
\* any other
OnlyFourFailures ==
    call.out.kind = (IF Rejected(call) THEN "ValueError" ELSE "ok")

\* C9 amended: ... and the one other failure is the ZeroDivisionError of
\* power(base, exponent) for base == 0 and exponent < 0
OnlyFourFailuresAndZeroPower ==
    call.out.kind =
        (IF Rejected(call) THEN "ValueError"
         ELSE IF /\ call.op = "power"
                 /\ call.args[1].n = 0
                 /\ call.args[2].sg = -1 /\ call.args[2].n > 0
              THEN "ZeroDivisionError"
         ELSE "ok")

OnlyFourFailuresAndZeroPower_witness ==
    /\ call.op = "power"
    /\ call.args = <<IntV(0), FloatV(-1, 1, 2)>>
    /\ call.out.kind = "ZeroDivisionError"

\* C10: history is empty at construction, always holds the entries of the
\* recorded calls since construction or the last clear in call order, and a
\* step leaves it, appends one entry to it (a recorded call only) or empties
\* it (clear_history only)
HistoryAppendOnly ==
    /\ Hist = <<>>
    /\ [](Hist = Entries(log))
    /\ [][\/ Hist' = Hist
          \/ /\ call'.op \in RecordedOps
             /\ Len(Hist') = Len(Hist) + 1
             /\ SubSeq(Hist', 1, Len(Hist)) = Hist
          \/ /\ call'.op = "clear_history"
             /\ Hist' = <<>>]_vars

HistoryAppendOnly_witness ==
    /\ ~cleared
    /\ Len(log) = 2
    /\ log[1].op = "multiply" /\ log[2].op = "add"
    /\ Hist = <<"-0.5 * 2 = -1.0", "2 + -0.5 = 1.5">>

=============================================================================
